---- MODULE Spec2Model ----
(***************************************************************************)
(* A model of the Go Fish engine of fish_lib (game.py, players.py) and of  *)
(* the driver loop do_full_round.  Players are identified by their roster  *)
(* index 0..n-1 (Python compares player objects by identity).  A card is   *)
(* the tuple <<rank, suit>>; card[1] is Python's card[0].                  *)
(***************************************************************************)
EXTENDS Integers, Sequences, FiniteSets, TLC

VARIABLES
    deck,                \* BasicGoFish.deck: list of cards, front first
    active_player_idx,   \* BasicGoFish.active_player_idx (0-based)
    players,             \* BasicGoFish.players: roster index -> class name
    hand,                \* player.hand: roster index -> list of cards
    books,               \* player.books: roster index -> list of ranks
    playing,             \* player.playing: roster index -> BOOLEAN
    seen,                \* TryingPlayer.seen: roster index -> dict face -> player/None
    iterations,          \* local counter of do_full_round (tracked up to IterCap)
    pc,                  \* position of the driver
    ev                   \* what the last executed call did (arguments, results)

vars == <<deck, active_player_idx, players, hand, books, playing, seen,
          iterations, pc, ev>>

----------------------------------------------------------------------------
(* Bounds of the model *)

\* number of ranks of RANKS used to build the deck of a played game
NumRanks == 5
\* largest roster of a played game
MaxPlayers == 3
\* shuffles of a played game are the cuts 0..MaxCut of the deck
MaxCut == 1
\* do_full_round's counter is tracked exactly up to this value
IterCap == 2
\* largest roster of the deal-only specification (full 52-card deck)
MaxDealPlayers == 11
\* shuffles of the deal-only specification are the cuts 0..MaxDealCut
MaxDealCut == 9
\* largest draw_amount tried by the call harness
MaxDraw == 2

----------------------------------------------------------------------------
(* Program constants *)

RANKS == <<"2", "3", "4", "5", "6", "7", "8", "9", "10",
           "Jack", "Queen", "King", "Ace">>
SUITS == <<"Spades", "Clubs", "Hearts", "Diamond">>

\* Python's None; player references are roster indexes >= 0
None == -1

\* iteration ceiling of do_full_round
ITER_LIMIT == 100000

\* setup_game: card_count = 5 if len(players) > 4 else 7
BIG_ROSTER == 4
SMALL_HAND == 5
LARGE_HAND == 7

\* a book is a rank held 4 times
BOOK_SIZE == 4

----------------------------------------------------------------------------
(* Python helpers *)

RECURSIVE Product(_, _)
\* itertools.product(rs, ss): rs outer, ss inner
Product(rs, ss) ==
    IF rs = <<>> THEN <<>>
    ELSE [i \in 1..Len(ss) |-> <<Head(rs), ss[i]>>] \o Product(Tail(rs), ss)

\* BASE_DECK restricted to the first k ranks (k = 13: the program's deck)
DeckOf(k) == Product(SubSeq(RANKS, 1, k), SUITS)

BASE_DECK == DeckOf(Len(RANKS))

\* the elements of a list
Range(s) == {s[i] : i \in 1..Len(s)}

\* x in list
InList(x, s) == \E i \in 1..Len(s) : s[i] = x

\* list.index(x), 0-based; x is in the list
IndexOf(s, x) == (CHOOSE i \in 1..Len(s) : s[i] = x /\ \A j \in 1..(i-1) : s[j] # x) - 1

\* list.remove(x): the first occurrence goes (ValueError when absent: the
\* callers only remove cards they have just found in the list)
ListRemove(s, x) ==
    IF ~InList(x, s) THEN s
    ELSE LET i == IndexOf(s, x) + 1
         IN  SubSeq(s, 1, i - 1) \o SubSeq(s, i + 1, Len(s))

RECURSIVE RemoveEach(_, _)
\* for i in items: s.remove(i)  (the list after one removal is bound as a
\* value before the loop goes on)
RemoveEach(s, items) ==
    IF items = <<>> THEN s
    ELSE CHOOSE r \in {RemoveEach(rest, Tail(items)) :
                         rest \in {ListRemove(s, Head(items))}} : TRUE

\* dict helpers
EmptyDict == [k \in {} |-> None]
DictSet(d, k, v) == [x \in (DOMAIN d) \cup {k} |-> IF x = k THEN v ELSE d[x]]
DictPop(d, k) == [x \in (DOMAIN d) \ {k} |-> d[x]]
\* dict.get(k): None when the key is missing
DictGet(d, k) == IF k \in DOMAIN d THEN d[k] ELSE None

\* bool(x) of a list, shown as the face value it is passed as: a Python bool
\* never equals a rank string and is a dict key of its own
PyBool(b) == IF b THEN "True" ELSE "False"

\* random.shuffle: here one of a family of permutations, the cut at c
\* (position i takes the card at (i - 1 + c) mod length)
Shuffled(d, c) ==
    [i \in 1..Len(d) |-> d[((i - 1 + c) % Len(d)) + 1]]

----------------------------------------------------------------------------
(* players.py *)

NumPlayers == Cardinality(DOMAIN players)
Roster == DOMAIN players
PlayerTypes == {"DumbPlayer", "TryingPlayer"}

\* BasePlayer.count_copies
count_copies(h, face) == Len(SelectSeq(h, LAMBDA c : c[1] = face))

\* the face values of a hand
HandFaces(h) == {h[i][1] : i \in 1..Len(h)}

\* a confirm_ask that hands over every card of the face but takes only the
\* first of them out of the hand
confirm_ask_first(h, face) ==
    LET given == SelectSeq(h, LAMBDA c : c[1] = face)
    IN  [given |-> given,
         hand |-> IF given = <<>> THEN h ELSE ListRemove(h, given[1])]

\* DumbPlayer.confirm_ask: [given_cards, remaining hand]
confirm_ask(h, face) ==
    LET given == SelectSeq(h, LAMBDA c : c[1] = face)
    IN  [given |-> given, hand |-> RemoveEach(h, given)]

\* an ask_for_card that does not filter the asker out of the targets
DumbChoicesAll(self, h, valid) ==
    {<<f, t>> : f \in HandFaces(h), t \in Range(valid)}

\* DumbPlayer.ask_for_card: the possible results <<face, target>>; empty when
\* random.choice would raise IndexError on an empty list
DumbChoices(self, h, valid) ==
    {<<f, t>> : f \in HandFaces(h), t \in {x \in Range(valid) : x # self}}

\* TryingPlayer.ask_for_card, the informed faces (poss_targets)
PossTargets(sn, h, valid) ==
    {f \in (DOMAIN sn) \cap HandFaces(h) : InList(DictGet(sn, f), valid)}

\* an ask_for_card whose informed request reads the memory entry and keeps it
AskChoicesKeep(self, cls, sn, h, valid) ==
    IF cls = "TryingPlayer" /\ PossTargets(sn, h, valid) # {}
    THEN {[face |-> f, target |-> sn[f], seen |-> sn, informed |-> TRUE] :
             f \in PossTargets(sn, h, valid)}
    ELSE {[face |-> c[1], target |-> c[2], seen |-> sn, informed |-> FALSE] :
             c \in DumbChoices(self, h, valid)}

\* TryingPlayer.ask_for_card / DumbPlayer.ask_for_card by class: the possible
\* results [face, target, seen (the asker's dict afterwards), informed]
AskChoices(self, cls, sn, h, valid) ==
    IF cls = "TryingPlayer" /\ PossTargets(sn, h, valid) # {}
    THEN {[face |-> f, target |-> sn[f], seen |-> DictPop(sn, f), informed |-> TRUE] :
             f \in PossTargets(sn, h, valid)}
    ELSE {[face |-> c[1], target |-> c[2], seen |-> sn, informed |-> FALSE] :
             c \in DumbChoices(self, h, valid)}

\* a hear_ask that records the player asked instead of the asker
hear_ask_target(cls, sn, a_player, face, r_player) ==
    IF cls = "TryingPlayer" THEN DictSet(sn, face, r_player) ELSE sn

\* TryingPlayer.hear_ask (DumbPlayer.hear_ask does nothing)
hear_ask(cls, sn, a_player, face, r_player) ==
    IF cls = "TryingPlayer" THEN DictSet(sn, face, a_player) ELSE sn

\* TryingPlayer.hear_confirm (DumbPlayer.hear_confirm does nothing);
\* a_hand is a_player.hand when the hook runs, result is tested for truth
hear_confirm(cls, sn, a_hand, face, r_player, result) ==
    IF cls = "TryingPlayer" /\ result /\ count_copies(a_hand, face) = BOOK_SIZE
    THEN DictSet(sn, face, None)
    ELSE sn

----------------------------------------------------------------------------
(* game.py *)

\* the keys of rank_count, in order of first appearance in the hand
FirstFaces(h) ==
    LET firsts == SelectSeq([i \in 1..Len(h) |-> <<i, h[i][1]>>],
                            LAMBDA e : \A j \in 1..(e[1] - 1) : h[j][1] # e[2])
    IN  [k \in 1..Len(firsts) |-> firsts[k][2]]

\* a check_player_for_book that takes the cards of a book out of the hand and
\* does not record the book
check_book_forget(h, bk) ==
    [hand |-> RemoveEach(h, Product(SelectSeq(FirstFaces(h),
                                LAMBDA r : count_copies(h, r) = BOOK_SIZE), SUITS)),
     books |-> bk]

\* a check_player_for_book that records the books and leaves their cards in
\* the hand
check_book_keep(h, bk) ==
    [hand |-> h,
     books |-> bk \o SelectSeq(FirstFaces(h),
                               LAMBDA r : count_copies(h, r) = BOOK_SIZE)]

\* BasicGoFish.check_player_for_book: [hand, books] afterwards
check_player_for_book(h, bk) ==
    LET found == SelectSeq(FirstFaces(h), LAMBDA r : count_copies(h, r) = BOOK_SIZE)
    IN  [hand |-> RemoveEach(h, Product(found, SUITS)), books |-> bk \o found]

RECURSIVE DrawLoop(_, _, _)
\* the while loop of draw_card: i cards left to pop from the front of the deck
DrawLoop(dk, h, i) ==
    IF i <= 0 THEN [deck |-> dk, hand |-> h]
    ELSE DrawLoop(Tail(dk), Append(h, Head(dk)), i - 1)

\* a draw_card that hands out the cards without popping them from the deck
draw_card_copy(dk, h, draw_amount) ==
    IF Len(dk) >= draw_amount
    THEN [deck |-> dk, hand |-> h \o SubSeq(dk, 1, draw_amount), ok |-> TRUE]
    ELSE [deck |-> dk, hand |-> h, ok |-> FALSE]

\* a draw_card that reports success when the deck is too short
draw_card_always(dk, h, draw_amount) ==
    IF Len(dk) >= draw_amount
    THEN [deck |-> SubSeq(dk, draw_amount + 1, Len(dk)),
          hand |-> h \o SubSeq(dk, 1, draw_amount), ok |-> TRUE]
    ELSE [deck |-> dk, hand |-> h, ok |-> TRUE]

\* a draw_card that draws what is left when the deck is too short
draw_card_partial(dk, h, draw_amount) ==
    IF Len(dk) >= draw_amount
    THEN [deck |-> SubSeq(dk, draw_amount + 1, Len(dk)),
          hand |-> h \o SubSeq(dk, 1, draw_amount), ok |-> TRUE]
    ELSE [deck |-> <<>>, hand |-> h \o dk, ok |-> FALSE]

\* BasicGoFish.draw_card: [deck, hand, ok (the returned flag)]
draw_card(dk, h, draw_amount) ==
    IF Len(dk) >= draw_amount
    THEN LET r == DrawLoop(dk, h, draw_amount)
         IN  [deck |-> r.deck, hand |-> r.hand, ok |-> TRUE]
    ELSE [deck |-> dk, hand |-> h, ok |-> FALSE]

\* list[:k] and list[k:]
Take(s, k) == SubSeq(s, 1, IF k < Len(s) THEN k ELSE Len(s))
Drop(s, k) == SubSeq(s, (IF k < Len(s) THEN k ELSE Len(s)) + 1, Len(s))

\* a card_count that deals the small hand to a roster of four already
card_count_four(n) == IF n >= BIG_ROSTER THEN SMALL_HAND ELSE LARGE_HAND

\* setup_game: card_count
card_count(n) == IF n > BIG_ROSTER THEN SMALL_HAND ELSE LARGE_HAND

RECURSIVE DealLoop(_, _, _, _)
\* the for loop of setup_game over players i..n-1: [deck, hand]
DealLoop(dk, hd, i, n) ==
    IF i >= n THEN [deck |-> dk, hand |-> hd]
    ELSE DealLoop(Drop(dk, card_count(n)),
                  [hd EXCEPT ![i] = Take(dk, card_count(n))], i + 1, n)

\* BasicGoFish.done
done == ~((\E p \in Roster : playing[p]) \/ deck # <<>>)

\* a valid_players that is the whole roster
ValidPlayersAll(pl) == [i \in 1..NumPlayers |-> i - 1]

\* the players of the roster with the flag set, in roster order
ValidPlayers(pl) ==
    SelectSeq([i \in 1..NumPlayers |-> i - 1], LAMBDA p : pl[p])

\* the smallest book count instead of the largest
least_score == CHOOSE m \in {Len(books[p]) : p \in Roster} :
                   \A p \in Roster : Len(books[p]) >= m

\* max(len(play.books) for play in self.players)
best_score == CHOOSE m \in {Len(books[p]) : p \in Roster} :
                  \A p \in Roster : Len(books[p]) <= m

\* BasicGoFish.winner
winner ==
    IF ~done THEN None
    ELSE SelectSeq([i \in 1..NumPlayers |-> i - 1],
                   LAMBDA p : Len(books[p]) = best_score)

\* truth value of a player object (no __bool__/__len__) or of None
ObjectTruth(p) == p # None

\* the record kept of a call that did not reach the request
NoAsk == [active |-> None, asked |-> FALSE, valid |-> <<>>, face |-> "",
          target |-> None,
          won |-> <<>>, informed |-> FALSE, observers |-> <<>>,
          ask_hand |-> <<>>, notify_hand |-> <<>>, new_books |-> <<>>]

----------------------------------------------------------------------------
(* The driver: main.py builds the players, BasicGoFish(players), then          *)
(* do_full_round = setup_game, then do_turn while not done.                   *)

\* BasicGoFish.__init__ on fresh players (BasePlayer.__init__,
\* TryingPlayer.__init__) with a deck of the first k ranks
Constructed(n, k) ==
    /\ deck = DeckOf(k)
    /\ active_player_idx = 0
    /\ hand = [p \in 0..(n - 1) |-> <<>>]
    /\ books = [p \in 0..(n - 1) |-> <<>>]
    /\ playing = [p \in 0..(n - 1) |-> TRUE]
    /\ seen = [p \in 0..(n - 1) |-> EmptyDict]
    /\ iterations = 0
    /\ pc = "constructed"
    /\ ev = [kind |-> "init"] @@ NoAsk

Init ==
    \E n \in 2..MaxPlayers :
        /\ players \in [0..(n - 1) -> PlayerTypes]
        /\ Constructed(n, NumRanks)

\* BasicGoFish.setup_game with the shuffle sh
setup_game(sh) ==
    LET d == DealLoop(Shuffled(deck, sh), hand, 0, NumPlayers)
    IN  /\ deck' = d.deck
        /\ hand' = d.hand
        /\ active_player_idx' = 0
        /\ playing' = [p \in Roster |-> TRUE]
        /\ ev' = [kind |-> "setup_game"] @@ NoAsk
        /\ UNCHANGED <<players, books, seen>>

\* do_full_round, lines 148-149
SetupGame ==
    /\ pc = "constructed"
    /\ \E sh \in 0..MaxCut : setup_game(sh)
    /\ pc' = "loop"
    /\ UNCHANGED iterations

\* an elimination that puts out every player without cards, not only the
\* two of the request
eliminate_all(pl, dk, hd, a, t) ==
    IF dk = <<>> THEN [p \in DOMAIN pl |-> pl[p] /\ hd[p] # <<>>] ELSE pl

\* an elimination that tests each of the two hands for the other player
eliminate_swapped(pl, dk, hd, a, t) ==
    LET pl1 == IF dk = <<>> /\ hd[a] = <<>> THEN [pl EXCEPT ![t] = FALSE] ELSE pl
    IN  IF dk = <<>> /\ hd[t] = <<>> THEN [pl1 EXCEPT ![a] = FALSE] ELSE pl1

\* an elimination that does not look at the target's hand
eliminate_target(pl, dk, hd, a, t) ==
    LET pl1 == IF dk = <<>> THEN [pl EXCEPT ![t] = FALSE] ELSE pl
    IN  IF dk = <<>> /\ hd[a] = <<>> THEN [pl1 EXCEPT ![a] = FALSE] ELSE pl1

\* do_turn, lines 117-124, after a request that won cards: the flags afterwards
eliminate(pl, dk, hd, a, t) ==
    LET pl1 == IF dk = <<>> /\ hd[t] = <<>> THEN [pl EXCEPT ![t] = FALSE] ELSE pl
    IN  IF dk = <<>> /\ hd[a] = <<>> THEN [pl1 EXCEPT ![a] = FALSE] ELSE pl1

\* a next index that follows the roster instead of valid_players
next_active_roster(valid, a) == (a + 1) % NumPlayers

\* do_turn, lines 136-137: the roster index of the player after a in the
\* list valid_players of line 94
next_active(valid, a) == valid[((IndexOf(valid, a) + 1) % Len(valid)) + 1]

\* do_turn from line 94 on: the active player a asks as ch says; dk, hd, pl
\* are the deck, the hands and the flags after lines 84-92.  Intermediate
\* values are bound by \E over a one-element set: each is computed once.
Exchange(a, dk, hd, pl, valid, ch) ==
    \E ca \in {confirm_ask(hd[ch.target], ch.face)} :
    \E hd1 \in {[hd EXCEPT ![ch.target] = ca.hand]} :
    \* hear_confirm(active_player, bool(won_cards), r_face, r_player)
    \* binds face <- bool(won_cards), r_player <- r_face, result <- r_player
    \E sn2 \in {[p \in Roster |->
                  IF InList(p, valid) /\ p # a /\ p # ch.target
                  THEN hear_confirm(players[p],
                                    hear_ask(players[p], seen[p],
                                             a, ch.face, ch.target),
                                    hd1[a], PyBool(ca.given # <<>>), ch.face,
                                    ObjectTruth(ch.target))
                  ELSE IF p = a THEN ch.seen ELSE seen[p]]} :
    \E hd2 \in {IF ca.given # <<>> THEN [hd1 EXCEPT ![a] = hd1[a] \o ca.given]
                ELSE hd1} :
    \E dr \in {IF ca.given = <<>> THEN draw_card(dk, hd2[a], 1)
               ELSE [deck |-> dk, hand |-> hd2[a], ok |-> FALSE]} :
    \E cb \in {check_player_for_book(dr.hand, books[a])} :
        /\ deck' = dr.deck
        /\ hand' = [hd2 EXCEPT ![a] = cb.hand]
        /\ books' = [books EXCEPT ![a] = cb.books]
        /\ playing' = IF ca.given # <<>>
                      THEN eliminate(pl, dk, hd2, a, ch.target) ELSE pl
        /\ seen' = sn2
        /\ active_player_idx' = next_active(valid, a)
        /\ pc' = pc
        /\ ev' = [kind |-> "do_turn", active |-> a, asked |-> TRUE,
                  valid |-> valid, face |-> ch.face, target |-> ch.target,
                  won |-> ca.given, informed |-> ch.informed,
                  observers |-> SelectSeq(valid, LAMBDA p : p # a /\ p # ch.target),
                  ask_hand |-> hd[a], notify_hand |-> hd1[a],
                  new_books |-> SubSeq(cb.books, Len(books[a]) + 1, Len(cb.books))]

\* a start of the turn that draws and ignores the result of the draw
TurnStartKeep ==
    IF hand[active_player_idx] = <<>>
    THEN [draw_card(deck, hand[active_player_idx], 1) EXCEPT
             !.ok = playing[active_player_idx]]
    ELSE [deck |-> deck, hand |-> hand[active_player_idx],
          ok |-> playing[active_player_idx]]

\* do_turn, lines 84-87: [deck, hand (of the active player), ok (its flag)]
TurnStart ==
    IF hand[active_player_idx] = <<>>
    THEN draw_card(deck, hand[active_player_idx], 1)
    ELSE [deck |-> deck, hand |-> hand[active_player_idx],
          ok |-> playing[active_player_idx]]

\* BasicGoFish.do_turn
do_turn ==
    \E a \in {active_player_idx} :
    \E d0 \in {TurnStart} :
    \E hd \in {[hand EXCEPT ![a] = d0.hand]} :
    \E pl \in {[playing EXCEPT ![a] = d0.ok]} :
    \E valid \in {ValidPlayers(pl)} :
    \E choices \in {AskChoices(a, players[a], seen[a], hd[a], valid)} :
        IF ~pl[a]
        THEN \* lines 89-92: the player is out
             /\ active_player_idx' = (a + 1) % NumPlayers
             /\ deck' = d0.deck
             /\ hand' = hd
             /\ playing' = pl
             /\ pc' = pc
             /\ ev' = [[kind |-> "do_turn"] @@ NoAsk EXCEPT !.active = a]
             /\ UNCHANGED <<books, seen>>
        ELSE IF choices = {}
        THEN \* random.choice raises IndexError: do_full_round ends by it
             /\ deck' = d0.deck
             /\ hand' = hd
             /\ playing' = pl
             /\ pc' = "IndexError"
             /\ ev' = [[kind |-> "do_turn"] @@ NoAsk EXCEPT
                          !.active = a, !.valid = valid, !.ask_hand = hd[a]]
             /\ UNCHANGED <<active_player_idx, books, seen>>
        ELSE \E ch \in choices : Exchange(a, d0.deck, hd, pl, valid, ch)

\* do_full_round, lines 150-154: one pass of the while loop
DoTurn ==
    /\ pc = "loop"
    /\ ~done
    /\ iterations < ITER_LIMIT
    /\ do_turn
    /\ iterations' = IF iterations < IterCap THEN iterations + 1 ELSE iterations
    /\ UNCHANGED players

\* do_full_round returns: the while condition is false
Finish ==
    /\ pc = "loop"
    /\ ~(~done /\ iterations < ITER_LIMIT)
    /\ pc' = "returned"
    /\ UNCHANGED <<deck, active_player_idx, players, hand, books, playing,
                   seen, iterations, ev>>

Next == SetupGame \/ DoTurn \/ Finish

Spec == Init /\ [][Next]_vars

----------------------------------------------------------------------------
(* Deal only: BasicGoFish(build_players()) of main.py with the program's      *)
(* 52-card deck and rosters of 2..MaxDealPlayers, followed by setup_game.     *)

InitDeal ==
    \E n \in 2..MaxDealPlayers :
        /\ players = [p \in 0..(n - 1) |-> "TryingPlayer"]
        /\ Constructed(n, Len(RANKS))

SetupGameDeal ==
    /\ pc = "constructed"
    /\ \E sh \in 0..MaxDealCut : setup_game(sh)
    /\ pc' = "dealt"
    /\ UNCHANGED iterations

SpecDeal == InitDeal /\ [][SetupGameDeal]_vars

----------------------------------------------------------------------------
(* Call harness: after a deal, draw_card is called any number of times with  *)
(* any player and amount (pc = "calls"), then confirm_ask or                  *)
(* check_player_for_book with any argument, then check_player_for_book any    *)
(* number of times (pc = "checks").                                           *)

InitCalls ==
    \E n \in 2..MaxPlayers :
        /\ players = [p \in 0..(n - 1) |-> "DumbPlayer"]
        /\ Constructed(n, NumRanks)

SetupForCalls ==
    /\ pc = "constructed"
    /\ \E sh \in 0..MaxCut : setup_game(sh)
    /\ pc' = "calls"
    /\ UNCHANGED iterations

\* the faces asked for: those of the deck and one that no card has
CallFaces ==
    Range(SubSeq(RANKS, 1, IF NumRanks < Len(RANKS) THEN NumRanks + 1 ELSE NumRanks))

\* player.confirm_ask(face)
CallConfirmAsk ==
    /\ pc = "calls"
    /\ \E p \in Roster, f \in CallFaces :
          LET ca == confirm_ask(hand[p], f)
          IN  /\ hand' = [hand EXCEPT ![p] = ca.hand]
              /\ ev' = [kind |-> "confirm_ask", player |-> p, face |-> f,
                        ret |-> ca.given] @@ NoAsk
    /\ pc' = "checks"
    /\ UNCHANGED <<deck, active_player_idx, players, books, playing, seen,
                   iterations>>

\* game.draw_card(player, draw_amount)
CallDrawCard ==
    /\ pc = "calls"
    /\ \E p \in Roster, k \in 0..MaxDraw :
          LET dr == draw_card(deck, hand[p], k)
          IN  /\ deck' = dr.deck
              /\ hand' = [hand EXCEPT ![p] = dr.hand]
              /\ ev' = [kind |-> "draw_card", player |-> p, amount |-> k,
                        ret |-> dr.ok] @@ NoAsk
    /\ UNCHANGED <<active_player_idx, players, books, playing, seen,
                   iterations, pc>>

\* BasicGoFish.check_player_for_book(player)
CallCheckBook ==
    /\ pc \in {"calls", "checks"}
    /\ \E p \in Roster :
          LET cb == check_player_for_book(hand[p], books[p])
          IN  /\ hand' = [hand EXCEPT ![p] = cb.hand]
              /\ books' = [books EXCEPT ![p] = cb.books]
              /\ ev' = [kind |-> "check_player_for_book", player |-> p,
                        ret |-> SubSeq(cb.books, Len(books[p]) + 1, Len(cb.books))]
                       @@ NoAsk
    /\ pc' = "checks"
    /\ UNCHANGED <<deck, active_player_idx, players, playing, seen,
                   iterations>>

NextCalls == SetupForCalls \/ CallConfirmAsk \/ CallDrawCard \/ CallCheckBook

SpecCalls == InitCalls /\ [][NextCalls]_vars

----------------------------------------------------------------------------
(* Fair runs of do_full_round: the loop keeps running (weak fairness), and   *)
(* when random.choice can again and again return a face and a target whose  *)
(* request wins cards, it eventually returns one (strong fairness).  This   *)
(* follows from every (face, target) that is repeatedly available being     *)
(* taken: hands only change by a turn that wins or draws cards.             *)

\* a turn whose request won cards
WinningTurn == DoTurn /\ ev'.asked /\ ev'.won # <<>>

SpecLive ==
    /\ Init
    /\ [][Next]_vars
    /\ WF_vars(Next)
    /\ SF_vars(WinningTurn)

----------------------------------------------------------------------------
(* Helpers of the properties *)

RECURSIVE HandCards(_)
\* all cards of the hands of players i..n-1, as one list
HandCards(i) == IF i >= NumPlayers THEN <<>> ELSE hand[i] \o HandCards(i + 1)

RECURSIVE BookCount(_)
\* number of books of players i..n-1
BookCount(i) == IF i >= NumPlayers THEN 0 ELSE Len(books[i]) + BookCount(i + 1)

RECURSIVE AllBooks(_)
\* the book lists of players i..n-1, as one list
AllBooks(i) == IF i >= NumPlayers THEN <<>> ELSE books[i] \o AllBooks(i + 1)

\* number of occurrences of x in a list
Occurrences(s, x) == Cardinality({i \in 1..Len(s) : s[i] = x})

\* a step of the while loop of do_full_round that ran do_turn to its end
TurnStep == pc = "loop" /\ pc' = "loop" /\ ev'.kind = "do_turn"

Min(x, y) == IF x < y THEN x ELSE y
Max(x, y) == IF x > y THEN x ELSE y

----------------------------------------------------------------------------
(* Properties *)

\* C1: card conservation.  After setup_game and after every completed turn
\* of do_full_round, the cards in all hands plus 4 per book plus the cards
\* in the deck are as many as the deck was built with (52 with all 13
\* ranks), and no card occurs twice across the hands and the deck.
C1_CardConservation ==
    pc \in {"loop", "returned"} =>
        LET cards == HandCards(0) \o deck
        IN  /\ Len(cards) + 4 * BookCount(0) = Len(DeckOf(NumRanks))
            /\ \A i, j \in 1..Len(cards) : cards[i] = cards[j] => i = j

\* C1 witness: a turn has just moved cards between two hands and made a book
\* while cards were left in the deck.
C1_Witness ==
    /\ pc = "loop" /\ ev.kind = "do_turn" /\ ev.asked
    /\ ev.won # <<>> /\ ev.new_books # <<>> /\ deck # <<>>

\* C2: between turns, a player whose playing flag is false has an empty hand.
C2_OutHasEmptyHand ==
    \A p \in Roster : ~playing[p] => hand[p] = <<>>

\* C2 witness: one player is out while another still holds cards.
C2_Witness ==
    /\ pc = "loop"
    /\ \E p, q \in Roster : ~playing[p] /\ hand[q] # <<>>

C4_Winner ==
    /\ done =>
          /\ Len(winner) >= 1
          /\ \A i, j \in 1..Len(winner) : i < j => winner[i] < winner[j]
          /\ Range(winner) =
                {p \in Roster : \A q \in Roster : Len(books[q]) <= Len(books[p])}
    /\ ~done => winner = None

\* C4 witness: a finished game with a tie between two winners who made books.
C4_Witness ==
    /\ pc = "returned" /\ done
    /\ Len(winner) = 2 /\ Len(books[winner[1]]) >= 1
    /\ \E p \in Roster : Len(books[p]) < Len(books[winner[1]])

\* C5: request validity.  Whenever do_turn calls ask_for_card, the face
\* returned is one the active player holds, and the target is in
\* valid_players, has playing == true and is not the active player.
C5_RequestValid ==
    [][(TurnStep /\ ev'.asked) =>
          LET a == active_player_idx
              t == ev'.target
          IN  /\ ev'.active = a
              /\ ev'.ask_hand = (IF hand[a] # <<>> THEN hand[a] ELSE <<Head(deck)>>)
              /\ count_copies(ev'.ask_hand, ev'.face) >= 1
              /\ t \in Roster /\ t # a
              /\ InList(t, ev'.valid)
              /\ playing[t]]_vars

\* C5 witness: a memorizing player has just made an informed request, and a
\* player of the roster was already out.
C5_Witness ==
    /\ ev.kind = "do_turn" /\ ev.asked /\ ev.informed
    /\ Len(ev.valid) < NumPlayers

\* C6: confirm_ask.  player.confirm_ask(face) returns exactly the cards of
\* that face that were in the hand (possibly none), leaves no card of that
\* face in the hand, and leaves the other cards of the hand as they were (and
\* in their order); no other hand and not the deck is touched.
C6_ConfirmAsk ==
    [][(pc = "calls" /\ ev'.kind = "confirm_ask") =>
          LET p == ev'.player
              f == ev'.face
          IN  /\ \A c \in Range(hand[p]) \cup Range(ev'.ret) :
                    Occurrences(ev'.ret, c) =
                        (IF c[1] = f THEN Occurrences(hand[p], c) ELSE 0)
              /\ \A i \in 1..Len(hand'[p]) : hand'[p][i][1] # f
              /\ hand'[p] = SelectSeq(hand[p], LAMBDA c : c[1] # f)
              /\ \A q \in Roster \ {p} : hand'[q] = hand[q]
              /\ deck' = deck]_vars

\* C6 witness: confirm_ask has returned several cards and left others behind.
C6_Witness ==
    /\ ev.kind = "confirm_ask"
    /\ Len(ev.ret) >= 2
    /\ hand[ev.player] # <<>>

\* C7 as stated: for every roster size n >= 2, after setup_game every player
\* holds h cards (7 if n <= 4, else 5), the deck holds 52 - n*h cards, every
\* player is playing and the active index is 0.
C7_DealEveryRoster ==
    pc = "dealt" =>
        LET n == NumPlayers
            h == IF n <= 4 THEN 7 ELSE 5
        IN  /\ \A p \in Roster : Len(hand[p]) = h
            /\ Len(deck) = 52 - n * h
            /\ \A p \in Roster : playing[p]
            /\ active_player_idx = 0

\* C7: initial deal, for the rosters the deck suffices for.  After
\* setup_game player i holds min(h, max(0, 52 - i*h)) cards and the deck
\* max(0, 52 - n*h), where h = 7 if n <= 4 and h = 5 if n > 4; hence for
\* 2 <= n <= 10 every player holds h cards and the deck 52 - n*h (n = 6: 22
\* left).  Every player is playing and the active index is 0.
C7_Deal ==
    pc = "dealt" =>
        LET n == NumPlayers
            h == IF n <= 4 THEN 7 ELSE 5
        IN  /\ \A p \in Roster : Len(hand[p]) = Min(h, Max(0, 52 - p * h))
            /\ Len(deck) = Max(0, 52 - n * h)
            /\ n <= 10 => /\ \A p \in Roster : Len(hand[p]) = h
                          /\ Len(deck) = 52 - n * h
            /\ n = 6 => Len(deck) = 22
            /\ \A p \in Roster : playing[p]
            /\ active_player_idx = 0

\* C7 witness: six players have been dealt 5 cards each of a shuffled deck,
\* 22 cards are left.
C7_Witness ==
    /\ pc = "dealt" /\ NumPlayers = 6
    /\ \A p \in Roster : Len(hand[p]) = 5
    /\ Len(deck) = 22
    /\ hand[0] # SubSeq(BASE_DECK, 1, 5)

\* C8: draw_card(player, k) is all-or-nothing.  With at least k cards in the
\* deck, its first k cards leave it in order and are appended to the
\* player's hand, and True is returned; with fewer, False is returned and
\* the deck and the hand are unchanged.  No other hand is touched.
C8_DrawAllOrNothing ==
    [][(pc = "calls" /\ ev'.kind = "draw_card") =>
          LET p == ev'.player
              k == ev'.amount
          IN  /\ IF Len(deck) >= k
                 THEN /\ ev'.ret = TRUE
                      /\ deck' = SubSeq(deck, k + 1, Len(deck))
                      /\ hand'[p] = hand[p] \o SubSeq(deck, 1, k)
                 ELSE /\ ev'.ret = FALSE
                      /\ deck' = deck
                      /\ hand'[p] = hand[p]
              /\ \A q \in Roster \ {p} : hand'[q] = hand[q]]_vars

\* C8 witness: a draw of several cards has been refused although the deck
\* was not empty.
C8_Witness ==
    /\ ev.kind = "draw_card"
    /\ ev.ret = FALSE
    /\ ev.amount >= 2
    /\ Len(deck) >= 1

\* C9: book detection.  check_player_for_book takes out of the player's hand
\* all 4 cards of every rank held 4 times, appends each such rank once to the
\* player's books (several in one call are possible) and leaves the other
\* cards in the hand; a second call on the result changes nothing.
C9_BookDetection ==
    [][(pc \in {"calls", "checks"} /\ ev'.kind = "check_player_for_book") =>
          LET p == ev'.player
              full == {r \in HandFaces(hand[p]) :
                          Cardinality({i \in 1..Len(hand[p]) : hand[p][i][1] = r}) = 4}
          IN  /\ hand'[p] = SelectSeq(hand[p], LAMBDA c : c[1] \notin full)
              /\ books'[p] = books[p] \o ev'.ret
              /\ Range(ev'.ret) = full
              /\ Len(ev'.ret) = Cardinality(full)
              /\ \A q \in Roster \ {p} : hand'[q] = hand[q] /\ books'[q] = books[q]
              /\ deck' = deck
              /\ check_player_for_book(hand'[p], books'[p]) =
                    [hand |-> hand'[p], books |-> books'[p]]]_vars

\* C9 witness: one call has made two books and left cards in the hand.
C9_Witness ==
    /\ ev.kind = "check_player_for_book"
    /\ Len(ev.ret) >= 2
    /\ hand[ev.player] # <<>>

\* C10: memory clearing on an observed book.  After a turn whose request for
\* rank r won cards and by which the asker holds all 4 cards of r, every
\* memorizing observer notified by do_turn has None as its entry for r.
C10_MemoryCleared ==
    (/\ pc = "loop" /\ ev.kind = "do_turn" /\ ev.asked
     /\ ev.won # <<>>
     /\ count_copies(ev.ask_hand \o ev.won, ev.face) = 4)
    => \A p \in Range(ev.observers) :
          players[p] = "TryingPlayer" =>
              /\ ev.face \in DOMAIN seen[p]
              /\ seen[p][ev.face] = None

\* C11: memory recording.  After a turn in which X asks Y for rank r and the
\* request fails, every memorizing player Z of valid_players other than X
\* and Y has memory[r] = X (its other entries as before); the memory of Y
\* is unchanged, and that of X changes only by its own ask_for_card (the
\* entry an informed request consumes), not by a notification.
C11_MemoryRecorded ==
    [][(TurnStep /\ ev'.asked /\ ev'.won = <<>>) =>
          LET x == ev'.active
              y == ev'.target
              r == ev'.face
          IN  /\ \A z \in Roster \ {x, y} :
                    (players[z] = "TryingPlayer" /\ playing[z]) =>
                        /\ r \in DOMAIN seen'[z]
                        /\ seen'[z][r] = x
                        /\ DOMAIN seen'[z] = DOMAIN seen[z] \cup {r}
                        /\ \A k \in DOMAIN seen[z] \ {r} : seen'[z][k] = seen[z][k]
              /\ \A z \in Roster \ {x, y} :
                    (players[z] # "TryingPlayer" \/ ~playing[z]) => seen'[z] = seen[z]
              /\ seen'[y] = seen[y]
              /\ seen'[x] = (IF ev'.informed
                             THEN [k \in DOMAIN seen[x] \ {r} |-> seen[x][k]]
                             ELSE seen[x])]_vars

\* C11 witness: a request has failed in front of a memorizing observer that
\* remembered another player for that rank before: the entry now names the
\* asker.
C11_Witness ==
    /\ pc = "loop" /\ ev.kind = "do_turn" /\ ev.asked /\ ev.won = <<>>
    /\ \E z \in Range(ev.observers) :
          /\ players[z] = "TryingPlayer"
          /\ seen[z][ev.face] = ev.active
          /\ Cardinality(DOMAIN seen[z]) >= 2

\* C12: informed preference.  When a memorizing player's ask_for_card is
\* called and some rank it holds has a memory entry naming a player of the
\* candidate list, it returns such a rank with the player recorded for it and
\* removes exactly that entry; only when there is no such rank does it fall
\* back to the naive choice (a rank it holds, a candidate other than itself),
\* leaving the memory unchanged.
C12_InformedPreference ==
    [][(TurnStep /\ ev'.asked /\ players[ev'.active] = "TryingPlayer") =>
          LET a == ev'.active
              h == IF hand[a] # <<>> THEN hand[a] ELSE <<Head(deck)>>
              cand == {p \in Roster : playing[p] \/ p = a}
              held == {h[i][1] : i \in 1..Len(h)}
              options == {r \in DOMAIN seen[a] : r \in held /\ seen[a][r] \in cand}
          IN  IF options # {}
              THEN /\ ev'.face \in options
                   /\ ev'.target = seen[a][ev'.face]
                   /\ DOMAIN seen'[a] = DOMAIN seen[a] \ {ev'.face}
                   /\ \A k \in DOMAIN seen'[a] : seen'[a][k] = seen[a][k]
              ELSE /\ seen'[a] = seen[a]
                   /\ ev'.face \in held
                   /\ ev'.target \in cand \ {a}]_vars

\* C12 witness: a memorizing player with a non-empty memory had no informed
\* option and fell back to the naive choice.
C12_Witness ==
    /\ pc = "loop" /\ ev.kind = "do_turn" /\ ev.asked /\ ~ev.informed
    /\ players[ev.active] = "TryingPlayer"
    /\ seen[ev.active] # EmptyDict

\* C13: elimination check.  At the end of every turn that reached the card
\* exchange, if the deck is empty then the active player is out whenever its
\* hand is empty (also when the book check of that turn emptied it), and the
\* target is out whenever its hand is empty, whether the request won cards
\* or not.
C13_EliminationCheck ==
    (pc = "loop" /\ ev.kind = "do_turn" /\ ev.asked /\ deck = <<>>) =>
        /\ hand[ev.active] = <<>> => ~playing[ev.active]
        /\ hand[ev.target] = <<>> => ~playing[ev.target]

\* C14: out-of-cards turn.  When do_turn runs for an active player whose
\* hand is empty while the deck is empty, no card is drawn, ask_for_card is
\* not invoked (no request, no memory consumed or recorded), the active
\* player's flag becomes false, the active index becomes (index + 1) mod
\* roster size, and every hand, every book list, the deck and every other
\* player's flag are unchanged.
C14_OutOfCardsTurn ==
    [][(/\ pc = "loop" /\ ~done
        /\ hand[active_player_idx] = <<>> /\ deck = <<>>) =>
          LET a == active_player_idx
          IN  /\ pc' = "loop"
              /\ ev'.kind = "do_turn" /\ ev'.active = a /\ ~ev'.asked
              /\ ~playing'[a]
              /\ \A q \in Roster \ {a} : playing'[q] = playing[q]
              /\ active_player_idx' = (a + 1) % NumPlayers
              /\ hand' = hand /\ books' = books /\ deck' = deck
              /\ seen' = seen]_vars

\* C14 witness: such a turn has just ended, its player is out and the index
\* has moved on, while another player still plays with cards in hand.
C14_Witness ==
    /\ pc = "loop" /\ ev.kind = "do_turn" /\ ~ev.asked
    /\ deck = <<>> /\ hand[ev.active] = <<>> /\ ~playing[ev.active]
    /\ active_player_idx = (ev.active + 1) % NumPlayers
    /\ \E q \in Roster : playing[q] /\ hand[q] # <<>>

\* C15: turn advancement from the stale list.  After every turn that reached
\* the request, the new active index is the first player after the active
\* one, in cyclic roster order, that was playing when valid_players was
\* computed (the active player itself when there is no other), also when
\* that player was put out during the turn; players that were out at the
\* start of the turn are skipped.
C15_NextFromStaleList ==
    [][(TurnStep /\ ev'.asked) =>
          LET a == ev'.active
              n == NumPlayers
              k == CHOOSE j \in 1..n :
                      /\ j = n \/ playing[(a + j) % n]
                      /\ \A i \in 1..(j - 1) : ~playing[(a + i) % n]
          IN  active_player_idx' = (a + k) % n]_vars

\* C15 witness: the index has moved to the target of the request, which the
\* same turn put out, and a player that was out before was skipped.
C15_Witness ==
    /\ pc = "loop" /\ ev.kind = "do_turn" /\ ev.asked
    /\ active_player_idx = ev.target
    /\ ~playing[active_player_idx]
    /\ Len(ev.valid) < NumPlayers
    /\ active_player_idx # (ev.active + 1) % NumPlayers

\* C16: ordering of transfer and notification.  In a turn whose request
\* wins cards, the cards surrendered by the target are in the active
\* player's hand when the observers' hooks are invoked (so that every card
\* is then in a hand, a book or the deck).
C16_TransferBeforeNotification ==
    (/\ pc = "loop" /\ ev.kind = "do_turn" /\ ev.asked
     /\ ev.won # <<>> /\ ev.observers # <<>>)
    => \A i \in 1..Len(ev.won) : InList(ev.won[i], ev.notify_hand)

\* C17: the choices of ask_for_card are never made from an empty collection.
\* In every state from which do_turn reaches the call of ask_for_card (the
\* active player holds cards and is playing, or holds none and can draw),
\* the hand asked from is non-empty and another player is playing, and no
\* turn has ended by random.choice raising IndexError.
C17_ChoiceNeverEmpty ==
    /\ pc # "IndexError"
    /\ (pc = "loop" /\ ~done) =>
          LET a == active_player_idx
              asks == IF hand[a] = <<>> THEN deck # <<>> ELSE playing[a]
              h == IF hand[a] # <<>> THEN hand[a]
                   ELSE IF deck # <<>> THEN <<Head(deck)>> ELSE <<>>
          IN  asks => /\ h # <<>>
                      /\ \E p \in Roster \ {a} : playing[p]
    /\ (ev.kind = "do_turn" /\ ev.asked) =>
          /\ ev.ask_hand # <<>>
          /\ \E p \in Range(ev.valid) : p # ev.active

\* C17 witness: in a game of three, a request has been made from a hand of
\* one card with a single other player left to ask.
C17_Witness ==
    /\ pc = "loop" /\ ev.kind = "do_turn" /\ ev.asked
    /\ NumPlayers = 3 /\ Len(ev.valid) = 2
    /\ Len(ev.ask_hand) = 1

\* C18: elimination is permanent within a game.  A step of the game clears
\* a player's playing flag only with the deck empty, never sets a cleared
\* flag again, and never makes a player whose flag is cleared the target of
\* a request.
C18_EliminationPermanent ==
    [][pc = "loop" =>
          /\ \A p \in Roster :
                /\ (playing[p] /\ ~playing'[p]) => deck' = <<>>
                /\ ~playing[p] => ~playing'[p]
          /\ (pc' = "loop" /\ ev'.kind = "do_turn" /\ ev'.asked) =>
                /\ playing[ev'.target]
                /\ \A p \in Roster \ {ev'.active} :
                      ~playing[p] => ~InList(p, ev'.valid)]_vars

\* C18 witness: with one player out, a request between two others has won
\* cards and put a second player out.
C18_Witness ==
    /\ pc = "loop" /\ ev.kind = "do_turn" /\ ev.asked /\ ev.won # <<>>
    /\ Len(ev.valid) < NumPlayers
    /\ \E p \in Range(ev.valid) : ~playing[p]

\* C19: terminal books.  In every terminal state (done) every hand is empty
\* and the players' book lists together hold each rank the deck was built
\* with exactly once (13 books with all 13 ranks): no rank is credited to
\* two players or twice to one.
C19_TerminalBooks ==
    done =>
        /\ \A p \in Roster : hand[p] = <<>>
        /\ Len(AllBooks(0)) = NumRanks
        /\ \A k \in 1..NumRanks :
              Cardinality({i \in 1..Len(AllBooks(0)) : AllBooks(0)[i] = RANKS[k]}) = 1

\* C19 witness: a game of three has returned in a terminal state in which
\* every player made a book and one of them several.
C19_Witness ==
    /\ pc = "returned" /\ done /\ NumPlayers = 3
    /\ \A p \in Roster : books[p] # <<>>
    /\ \E q \in Roster : Len(books[q]) >= 2

\* C20: frame of a turn.  A single do_turn changes the hand of no player
\* other than the active player and the chosen target, the book list of no
\* player other than the active player, and the playing flag of no player
\* other than these two; it adds no card to the target's hand and none to
\* the deck (the deck only loses cards from its front).
C20_TurnFrame ==
    [][pc = "loop" =>
          LET a == active_player_idx
              asked == ev'.kind = "do_turn" /\ ev'.asked
              touched == IF asked THEN {a, ev'.target} ELSE {a}
          IN  /\ \A p \in Roster \ touched :
                    hand'[p] = hand[p] /\ playing'[p] = playing[p]
              /\ \A p \in Roster \ {a} : books'[p] = books[p]
              /\ asked => /\ ev'.target # a
                          /\ Len(hand'[ev'.target]) <= Len(hand[ev'.target])
                          /\ Range(hand'[ev'.target]) \subseteq Range(hand[ev'.target])
              /\ Len(deck') <= Len(deck)
              /\ deck' = SubSeq(deck, Len(deck) - Len(deck') + 1, Len(deck))]_vars

\* C20 witness: in a game of three, a turn has moved cards from the target
\* to the active player, made a book and put the target out, while the
\* third player, untouched, holds cards.
C20_Witness ==
    /\ pc = "loop" /\ ev.kind = "do_turn" /\ ev.asked
    /\ NumPlayers = 3
    /\ ev.won # <<>> /\ ev.new_books # <<>> /\ ~playing[ev.target]
    /\ \E p \in Roster \ {ev.active, ev.target} : hand[p] # <<>> /\ playing[p]

====
